---- MODULE Spec2Model ----
(***************************************************************************)
(* Model of the BleBox light entity                                        *)
(* (homeassistant/components/blebox/light.py): the colour-mode mapping,    *)
(* the composition of the on-value in async_turn_on, the effect branch,    *)
(* the BadOnValueError handler and async_turn_off.                         *)
(*                                                                         *)
(* The vendor feature object (blebox_uniapi) is the environment: its       *)
(* reported state is a set of variables, its commands are awaited (the     *)
(* entity is suspended at pc = "awaiting" until the device answers), and   *)
(* its answer (accepted, BadOnValueError, any other fault) is a            *)
(* nondeterministic choice.                                                *)
(***************************************************************************)
EXTENDS Integers, Sequences, FiniteSets, TLC

VARIABLES
    feature_color_mode,  \* self._feature.color_mode (fixed at construction)
    effect_list,         \* self._feature.effect_list
    is_on,               \* self._feature.is_on
    f_brightness,        \* self._feature.brightness (last reported)
    f_color_temp,        \* self._feature.color_temp (last reported)
    attr_mireds,         \* <<self._attr_min_mireds, self._attr_max_mireds>>
    pc,                  \* "idle" or "awaiting" (suspended in the awaited command)
    op,                  \* handler of the current/last invocation
    req,                 \* kwargs of the current/last async_turn_on
    emitted,             \* device commands issued by the current/last invocation
    logged,              \* _LOGGER.error records of the current/last invocation
    outcome,             \* how the current/last invocation ended
    queried,             \* result of the last host read of color_mode
    answer,              \* the device's answer to the last awaited command
    ncalls               \* number of invocations so far

vars == <<feature_color_mode, effect_list, is_on, f_brightness, f_color_temp,
          attr_mireds, pc, op, req, emitted, logged, outcome, queried, answer,
          ncalls>>

(***************************************************************************)
(* Bounds and input domains                                                *)
(***************************************************************************)
MaxCalls == 2

\* Optional values: None is the empty sequence, Some(v) a one-element one.
None == <<>>
Some(v) == <<v>>
Get(o) == o[1]
Opt(S) == {None} \cup {Some(v) : v \in S}

DeviceColorModes ==
    {"RGBW", "RGB", "MONO", "RGBorW", "CT", "CTx2", "RGBWW", "UNMAPPED"}

EffectLists == { <<"NONE", "FADE", "BELL">>, <<"NONE", "BELL", "FADE">> }
EffectNames == {"FADE", "POLICE"}

BrightnessReports == {64, 128}
ColorTempReports == {50, 200}

RgbwInputs == { <<10, 20, 30, 40>> }
RgbwwInputs == { <<5, 15, 25, 35, 45>> }
RgbInputs == { <<255, 0, 0>> }
ColorTempInputs == {100}
BrightnessInputs == {128, 255}

Requests ==
    [rgbw : Opt(RgbwInputs), color_temp : Opt(ColorTempInputs),
     rgbww : Opt(RgbwwInputs), rgb : Opt(RgbInputs),
     brightness : Opt(BrightnessInputs), effect : Opt(EffectNames)]

NoRequest ==
    [rgbw |-> None, color_temp |-> None, rgbww |-> None, rgb |-> None,
     brightness |-> None, effect |-> None]

(***************************************************************************)
(* Host constants used by the entity                                       *)
(***************************************************************************)
\* homeassistant.components.light.ColorMode members (a str enum).
ColorMode ==
    [RGBW |-> "rgbw", RGB |-> "rgb", BRIGHTNESS |-> "brightness",
     COLOR_TEMP |-> "color_temp", RGBWW |-> "rgbww", ONOFF |-> "onoff"]

\* homeassistant.components.light.ATTR_COLOR_TEMP, the kwargs key.
ATTR_COLOR_TEMP == "color_temp"

\* LightEntity's class defaults for _attr_min_mireds, _attr_max_mireds.
DefaultMireds == <<153, 500>>

MinMireds == 1
MaxMireds == 255

EntityName == "light"

(***************************************************************************)
(* Colour-mode resolution                                                  *)
(***************************************************************************)
COLOR_MODE_MAP_RGBorW_as_RGB ==
    [RGBW |-> ColorMode.RGBW, RGB |-> ColorMode.RGB, MONO |-> ColorMode.BRIGHTNESS,
     RGBorW |-> ColorMode.RGB, CT |-> ColorMode.COLOR_TEMP,
     CTx2 |-> ColorMode.COLOR_TEMP, RGBWW |-> ColorMode.RGBWW]

COLOR_MODE_MAP ==
    [RGBW |-> ColorMode.RGBW, RGB |-> ColorMode.RGB, MONO |-> ColorMode.BRIGHTNESS,
     RGBorW |-> ColorMode.RGBW, CT |-> ColorMode.COLOR_TEMP,
     CTx2 |-> ColorMode.COLOR_TEMP, RGBWW |-> ColorMode.RGBWW]

\* COLOR_MODE_MAP.get(self._feature.color_mode, ColorMode.ONOFF)
color_mode(device_mode) ==
    IF device_mode \in DOMAIN COLOR_MODE_MAP
    THEN COLOR_MODE_MAP[device_mode]
    ELSE ColorMode.ONOFF

MiredsAfterRead_NoSideEffect(mode, attrs) == attrs

\* The side effect of reading the color_mode property on the mireds attributes.
MiredsAfterRead(mode, attrs) ==
    IF mode = ColorMode.COLOR_TEMP THEN <<MinMireds, MaxMireds>> ELSE attrs

(***************************************************************************)
(* Vendor feature helpers called by async_turn_on                          *)
(***************************************************************************)
\* round(x * brightness / 255); x * brightness / 255 is never a tie.
ScaleChannel(x, brightness) == (2 * x * brightness + 255) \div 510

\* feature.apply_brightness(value, brightness): channel-wise scaling.
apply_brightness(value, brightness) ==
    [i \in DOMAIN value |-> ScaleChannel(value[i], brightness)]

\* feature.return_color_temp_with_brightness(value, brightness): the
\* device's packing of a colour temperature and a brightness into the
\* <<cold, warm>> channel pair.
return_color_temp_with_brightness(value, brightness) ==
    LET warm == IF value < 128 THEN value * 2 ELSE 255
        cold == IF value < 128 THEN 255 ELSE (255 - value) * 2
    IN  << ScaleChannel(cold, brightness), ScaleChannel(warm, brightness) >>

\* feature.sensible_on_value: the device's default on-value.
sensible_on_value(device_mode) ==
    CASE device_mode \in {"RGBW", "RGBorW"} -> <<255, 255, 255, 255>>
      [] device_mode = "RGB" -> <<255, 255, 255>>
      [] device_mode = "RGBWW" -> <<255, 255, 255, 255, 255>>
      [] device_mode \in {"CT", "CTx2"} -> <<255, 255>>
      [] OTHER -> <<255>>

\* list.index(name): 0-based position of the first occurrence; ValueError
\* (modelled as -1) when the name is absent.
ValueError == -1

Index_AbsentIsFirst(list, name) ==
    IF \E i \in DOMAIN list : list[i] = name
    THEN (CHOOSE i \in DOMAIN list :
             /\ list[i] = name
             /\ \A j \in DOMAIN list : list[j] = name => i <= j) - 1
    ELSE 0

Index_OneBased(list, name) ==
    IF \E i \in DOMAIN list : list[i] = name
    THEN CHOOSE i \in DOMAIN list :
             /\ list[i] = name
             /\ \A j \in DOMAIN list : list[j] = name => i <= j
    ELSE ValueError

Index(list, name) ==
    IF \E i \in DOMAIN list : list[i] = name
    THEN (CHOOSE i \in DOMAIN list :
             /\ list[i] = name
             /\ \A j \in DOMAIN list : list[j] = name => i <= j) - 1
    ELSE ValueError

(***************************************************************************)
(* async_turn_on: composition of the on-value                              *)
(***************************************************************************)
BrightnessAfterRgb_AnyMode(r, mode, brightness) ==
    IF r.rgb # None /\ r.brightness = None
    THEN Some(brightness)
    ELSE r.brightness

\* brightness after the rgb branch: defaulted to self.brightness in RGB mode.
BrightnessAfterRgb(r, mode, brightness) ==
    IF r.rgb # None /\ mode = ColorMode.RGB /\ r.brightness = None
    THEN Some(brightness)
    ELSE r.brightness

ValueAfterColor_Elif(r, brightness, on_value) ==
    IF r.rgbw # None THEN Get(r.rgbw)
    ELSE IF r.color_temp # None
         THEN return_color_temp_with_brightness(Get(r.color_temp), brightness)
    ELSE IF r.rgbww # None THEN Get(r.rgbww)
    ELSE IF r.rgb # None THEN Get(r.rgb)
    ELSE on_value

\* value after the rgbw, color_temp, rgbww and rgb branches.
ValueAfterColor(r, brightness, on_value) ==
    LET v1 == IF r.rgbw # None THEN Get(r.rgbw) ELSE on_value
        v2 == IF r.color_temp # None
              THEN return_color_temp_with_brightness(Get(r.color_temp), brightness)
              ELSE v1
        v3 == IF r.rgbww # None THEN Get(r.rgbww) ELSE v2
    IN  IF r.rgb # None THEN Get(r.rgb) ELSE v3

ComposeValue_AlwaysScaled(r, mode, brightness, color_temp, on_value) ==
    LET br == IF r.brightness = None THEN Some(brightness) ELSE r.brightness
        v == ValueAfterColor(r, brightness, on_value)
    IN  IF mode = ATTR_COLOR_TEMP
        THEN return_color_temp_with_brightness(color_temp, Get(br))
        ELSE apply_brightness(v, Get(br))

ComposeValue_NoColorTempBranch(r, mode, brightness, color_temp, on_value) ==
    LET br == BrightnessAfterRgb(r, mode, brightness)
        v == ValueAfterColor(r, brightness, on_value)
    IN  IF br # None THEN apply_brightness(v, Get(br)) ELSE v

\* value handed to feature.async_on.
ComposeValue(r, mode, brightness, color_temp, on_value) ==
    LET br == BrightnessAfterRgb(r, mode, brightness)
        v == ValueAfterColor(r, brightness, on_value)
    IN  IF br # None
        THEN IF mode = ATTR_COLOR_TEMP
             THEN return_color_temp_with_brightness(color_temp, Get(br))
             ELSE apply_brightness(v, Get(br))
        ELSE v

OnCommand(value) == [kind |-> "on", value |-> value]
EffectCommand(effect_value) == [kind |-> "effect", value |-> <<effect_value>>]
OffCommand == [kind |-> "off", value |-> <<>>]

\* _LOGGER.error("Turning on '%s' failed: Bad value %s (%s)", name, value, ex)
LogRecord(name, value) == [name |-> name, value |-> value, ex |-> "BadOnValueError"]

(***************************************************************************)
(* State machine                                                           *)
(***************************************************************************)
\* State after BleBoxLightEntity.__init__: the constructor reads color_mode
\* to fill _attr_supported_color_modes.
Init ==
    /\ feature_color_mode \in DeviceColorModes
    /\ effect_list \in EffectLists
    /\ is_on \in BOOLEAN
    /\ f_brightness \in BrightnessReports
    /\ f_color_temp \in ColorTempReports
    /\ attr_mireds = MiredsAfterRead(color_mode(feature_color_mode), DefaultMireds)
    /\ pc = "idle"
    /\ op = "none"
    /\ req = NoRequest
    /\ emitted = <<>>
    /\ logged = <<>>
    /\ outcome = "none"
    /\ queried = "none"
    /\ answer = "none"
    /\ ncalls = 0

\* The host reads the color_mode property.
ReadColorMode ==
    /\ queried' = color_mode(feature_color_mode)
    /\ attr_mireds' = MiredsAfterRead(color_mode(feature_color_mode), attr_mireds)
    /\ UNCHANGED <<feature_color_mode, effect_list, is_on, f_brightness,
                   f_color_temp, pc, op, req, emitted, logged, outcome, answer,
                   ncalls>>

\* async_turn_on(**kwargs) up to its suspension in the awaited command, or
\* up to the ValueError of effect_list.index.
AsyncTurnOn(r) ==
    /\ pc = "idle"
    /\ ncalls < MaxCalls
    /\ LET mode == color_mode(feature_color_mode)
           value == ComposeValue(r, mode, f_brightness, f_color_temp,
                                 sensible_on_value(feature_color_mode))
           effect_value == Index(effect_list, Get(r.effect))
       IN  /\ attr_mireds' = IF r.rgb # None \/ r.brightness # None
                             THEN MiredsAfterRead(mode, attr_mireds)
                             ELSE attr_mireds
           /\ IF r.effect # None
              THEN IF effect_value = ValueError
                   THEN /\ emitted' = <<>>
                        /\ pc' = "idle"
                        /\ outcome' = "ValueError"
                   ELSE /\ emitted' = <<EffectCommand(effect_value)>>
                        /\ pc' = "awaiting"
                        /\ outcome' = "running"
              ELSE /\ emitted' = <<OnCommand(value)>>
                   /\ pc' = "awaiting"
                   /\ outcome' = "running"
    /\ op' = "turn_on"
    /\ req' = r
    /\ logged' = <<>>
    /\ ncalls' = ncalls + 1
    /\ answer' = "none"
    /\ UNCHANGED <<feature_color_mode, effect_list, is_on, f_brightness,
                   f_color_temp, queried>>

\* async_turn_off(**kwargs) up to its suspension in feature.async_off().
AsyncTurnOff ==
    /\ pc = "idle"
    /\ ncalls < MaxCalls
    /\ emitted' = <<OffCommand>>
    /\ pc' = "awaiting"
    /\ outcome' = "running"
    /\ op' = "turn_off"
    /\ req' = NoRequest
    /\ logged' = <<>>
    /\ ncalls' = ncalls + 1
    /\ answer' = "none"
    /\ UNCHANGED <<feature_color_mode, effect_list, is_on, f_brightness,
                   f_color_temp, attr_mireds, queried>>

\* The awaited command completes; the handler returns.
CommandCompletes ==
    /\ pc = "awaiting"
    /\ pc' = "idle"
    /\ outcome' = "returned"
    /\ is_on' = CASE emitted[1].kind = "on" -> TRUE
                  [] emitted[1].kind = "off" -> FALSE
                  [] OTHER -> is_on
    /\ answer' = "accepted"
    /\ UNCHANGED <<feature_color_mode, effect_list, f_brightness, f_color_temp,
                   attr_mireds, op, req, emitted, logged, queried, ncalls>>

BadOnValueOutcome_Reraised == "fault"

\* How async_turn_on ends when async_on raised BadOnValueError.
BadOnValueOutcome == "returned"

\* The except branch: one _LOGGER.error record.
LoggedAfterBadOnValue(records, value) ==
    Append(records, LogRecord(EntityName, value))

EmittedAfterBadOnValue_Retry(commands) == commands \o commands

\* Commands issued once the except branch has run: nothing is re-sent.
EmittedAfterBadOnValue(commands) == commands

\* feature.async_on(value) raises BadOnValueError; the except branch runs.
OnRejected ==
    /\ pc = "awaiting"
    /\ emitted[1].kind = "on"
    /\ pc' = "idle"
    /\ outcome' = BadOnValueOutcome
    /\ logged' = LoggedAfterBadOnValue(logged, emitted[1].value)
    /\ emitted' = EmittedAfterBadOnValue(emitted)
    /\ answer' = "BadOnValueError"
    /\ UNCHANGED <<feature_color_mode, effect_list, is_on, f_brightness,
                   f_color_temp, attr_mireds, op, req, queried, ncalls>>

\* The awaited command raises a fault the handler does not catch.
CommandFaults ==
    /\ pc = "awaiting"
    /\ pc' = "idle"
    /\ outcome' = "fault"
    /\ answer' = "fault"
    /\ UNCHANGED <<feature_color_mode, effect_list, is_on, f_brightness,
                   f_color_temp, attr_mireds, op, req, emitted, logged,
                   queried, ncalls>>

\* The periodic poll refreshes the state the device reports.
Poll ==
    /\ f_brightness' \in BrightnessReports
    /\ f_color_temp' \in ColorTempReports
    /\ UNCHANGED <<feature_color_mode, effect_list, is_on, attr_mireds, pc, op,
                   req, emitted, logged, outcome, queried, answer, ncalls>>

Next ==
    \/ ReadColorMode
    \/ \E r \in Requests : AsyncTurnOn(r)
    \/ AsyncTurnOff
    \/ CommandCompletes
    \/ OnRejected
    \/ CommandFaults
    \/ Poll

Spec == Init /\ [][Next]_vars

(***************************************************************************)
(* Properties                                                              *)
(***************************************************************************)
\* A step that is an async_turn_on invocation.
TurnOnStep == pc = "idle" /\ ncalls' = ncalls + 1 /\ op' = "turn_on"

PresentColorFields(r) ==
    {f \in {"rgbw", "color_temp", "rgbww", "rgb"} : r[f] # None}

\* The value a colour field of the request produces on its own.
FieldValue(r, f, brightness) ==
    IF f = "color_temp"
    THEN return_color_temp_with_brightness(Get(r.color_temp), brightness)
    ELSE Get(r[f])

FieldOrder == <<"rgbw", "color_temp", "rgbww", "rgb">>

FirstPresent(r) ==
    FieldOrder[CHOOSE i \in 1..4 :
        /\ r[FieldOrder[i]] # None
        /\ \A j \in 1..4 : r[FieldOrder[j]] # None => i <= j]

LastPresent(r) ==
    FieldOrder[CHOOSE i \in 1..4 :
        /\ r[FieldOrder[i]] # None
        /\ \A j \in 1..4 : r[FieldOrder[j]] # None => j <= i]

\* The brightness step applied to a value v: with brightness br (explicit,
\* or the last-known one for rgb in RGB mode), colour-temperature mode
\* recombines the current colour temperature, other modes scale v.
BrightnessStep(v, r, device_mode, brightness, color_temp) ==
    LET br == IF r.brightness # None THEN r.brightness
              ELSE IF r.rgb # None /\ device_mode = "RGB" THEN Some(brightness)
              ELSE None
    IN  IF br = None THEN v
        ELSE IF device_mode \in {"CT", "CTx2"}
             THEN return_color_temp_with_brightness(color_temp, Get(br))
             ELSE [i \in DOMAIN v |-> ScaleChannel(v[i], Get(br))]

\* C1: the presentation mode a read of color_mode returns is the one the
\* fixed table gives for the device colour mode (RGBW->rgbw, RGB->rgb,
\* MONO->brightness, RGBorW->rgbw, CT->color_temp, CTx2->color_temp,
\* RGBWW->rgbww, anything else->onoff), in every state and on every read.
C1_ModeResolution ==
    queried # "none" =>
        queried = CASE feature_color_mode = "RGBW" -> "rgbw"
                    [] feature_color_mode = "RGB" -> "rgb"
                    [] feature_color_mode = "MONO" -> "brightness"
                    [] feature_color_mode = "RGBorW" -> "rgbw"
                    [] feature_color_mode = "CT" -> "color_temp"
                    [] feature_color_mode = "CTx2" -> "color_temp"
                    [] feature_color_mode = "RGBWW" -> "rgbww"
                    [] OTHER -> "onoff"

C1_Witness ==
    /\ feature_color_mode = "UNMAPPED"
    /\ queried = "onoff"
    /\ ncalls = MaxCalls

\* C2: an invocation that does not end in the unknown-effect fault has
\* issued exactly one device command (the effect command when an effect was
\* requested, otherwise the on-command; the off-command for async_turn_off);
\* while that command is in flight the invocation has not returned, and a
\* rejected command is not issued again.
C2_ExactlyOneCommand ==
    /\ pc = "awaiting" <=> outcome = "running"
    /\ outcome \in {"running", "returned", "fault"} =>
          /\ Len(emitted) = 1
          /\ op = "turn_off" => emitted[1].kind = "off"
          /\ op = "turn_on" =>
                emitted[1].kind = (IF req.effect # None THEN "effect" ELSE "on")
    /\ outcome \in {"returned", "fault"} => answer # "none"

C2_Witness ==
    /\ op = "turn_on"
    /\ answer = "BadOnValueError"
    /\ pc = "idle"
    /\ Len(emitted) = 1

\* C3: when the device rejects the on-value with BadOnValueError, the
\* invocation returns normally, has logged exactly one record naming the
\* entity and the rejected value, the reported device state and the
\* entity's own attributes are unchanged, and the entity is idle again.
C3_RejectionIsLocal ==
    [][ (pc = "awaiting" /\ answer' = "BadOnValueError") =>
            /\ outcome' = "returned"
            /\ pc' = "idle"
            /\ logged = <<>>
            /\ Len(logged') = 1
            /\ logged'[1].name = EntityName
            /\ logged'[1].value = emitted[1].value
            /\ is_on' = is_on
            /\ f_brightness' = f_brightness
            /\ f_color_temp' = f_color_temp
            /\ attr_mireds' = attr_mireds
            /\ feature_color_mode' = feature_color_mode
            /\ effect_list' = effect_list ]_vars

C3_Witness ==
    /\ answer = "BadOnValueError"
    /\ outcome = "returned"
    /\ Len(logged) = 1
    /\ logged[1].value = <<10, 20, 30, 40>>

\* C4: async_turn_on with an effect name that is not in the effect list
\* ends in the lookup fault and has issued no device command, whatever
\* else the request carries.
C4_UnknownEffect ==
    (/\ op = "turn_on"
     /\ req.effect # None
     /\ \A i \in DOMAIN effect_list : effect_list[i] # Get(req.effect))
    => (outcome = "ValueError" /\ emitted = <<>> /\ pc = "idle")

C4_Witness ==
    /\ outcome = "ValueError"
    /\ req.effect = Some("POLICE")
    /\ req.rgbw # None
    /\ req.brightness # None

\* C5: async_turn_on with an effect name that is in the effect list issues
\* only the effect command, carrying the 0-based position of the name in
\* the list, and no on-command, whatever colour fields and brightness the
\* request carries.
C5_EffectShortCircuits ==
    (/\ op = "turn_on"
     /\ req.effect # None
     /\ \E i \in DOMAIN effect_list : effect_list[i] = Get(req.effect))
    => /\ Len(emitted) = 1
       /\ emitted[1].kind = "effect"
       /\ emitted[1].value[1] + 1 \in DOMAIN effect_list
       /\ effect_list[emitted[1].value[1] + 1] = Get(req.effect)

C5_Witness ==
    /\ op = "turn_on"
    /\ req.effect = Some("FADE")
    /\ req.rgb # None
    /\ req.brightness # None
    /\ effect_list = <<"NONE", "BELL", "FADE">>
    /\ emitted = <<[kind |-> "effect", value |-> <<2>>]>>
    /\ outcome = "returned"

\* C6: async_turn_on with only rgbw set issues the on-command with exactly
\* the given rgbw tuple, in every presentation mode.
C6_RgbwOnly ==
    (/\ op = "turn_on"
     /\ req.rgbw # None
     /\ req.color_temp = None /\ req.rgbww = None /\ req.rgb = None
     /\ req.brightness = None /\ req.effect = None)
    => /\ Len(emitted) = 1
       /\ emitted[1].kind = "on"
       /\ emitted[1].value = Get(req.rgbw)

C6_Witness ==
    /\ op = "turn_on"
    /\ req = [NoRequest EXCEPT !.rgbw = Some(<<10, 20, 30, 40>>)]
    /\ feature_color_mode = "RGB"
    /\ f_brightness = 64
    /\ emitted = <<[kind |-> "on", value |-> <<10, 20, 30, 40>>]>>

\* C7: async_turn_on with rgb and no explicit brightness (and no effect):
\* in RGB mode the on-value is the rgb tuple scaled by the last-known
\* brightness; in every other mode it is the rgb tuple as given.
C7_RgbDefaultBrightness ==
    [][ (/\ TurnOnStep
         /\ req'.rgb # None /\ req'.brightness = None /\ req'.effect = None)
        => /\ Len(emitted') = 1
           /\ emitted'[1].kind = "on"
           /\ emitted'[1].value =
                 IF color_mode(feature_color_mode) = "rgb"
                 THEN [i \in 1..3 |->
                          ScaleChannel(Get(req'.rgb)[i], f_brightness)]
                 ELSE Get(req'.rgb) ]_vars

C7_Witness ==
    /\ op = "turn_on"
    /\ feature_color_mode = "RGB"
    /\ req.rgb = Some(<<255, 0, 0>>)
    /\ req.brightness = None /\ req.effect = None
    /\ emitted = <<[kind |-> "on", value |-> <<128, 0, 0>>]>>

\* C8: whenever the presentation mode is the colour-temperature mode, the
\* declared mireds range is exactly 1..255, in every state after
\* construction.
C8_ColorTempRange ==
    color_mode(feature_color_mode) = "color_temp" => attr_mireds = <<1, 255>>

C8_Witness ==
    /\ feature_color_mode = "CTx2"
    /\ attr_mireds = <<1, 255>>
    /\ op = "turn_on"
    /\ outcome = "returned"
    /\ queried = "color_temp"

\* C9 as stated: with several colour fields present (and no effect), the
\* on-value comes from the earliest present field in the order rgbw,
\* colorTemperature, rgbww, rgb, transformed only by the brightness step.
C9_FirstFieldWins ==
    [][ (/\ TurnOnStep
         /\ Cardinality(PresentColorFields(req')) > 1
         /\ req'.effect = None)
        => /\ Len(emitted') = 1
           /\ emitted'[1].kind = "on"
           /\ emitted'[1].value =
                 BrightnessStep(FieldValue(req', FirstPresent(req'), f_brightness),
                                req', feature_color_mode, f_brightness,
                                f_color_temp) ]_vars

\* C9 amended: with several colour fields present (and no effect), each
\* present field overwrites the value of the earlier ones, so the on-value
\* comes from the latest present field in the order rgbw, colorTemperature,
\* rgbww, rgb, transformed only by the brightness step.
C9_LastFieldWins ==
    [][ (/\ TurnOnStep
         /\ Cardinality(PresentColorFields(req')) > 1
         /\ req'.effect = None)
        => /\ Len(emitted') = 1
           /\ emitted'[1].kind = "on"
           /\ emitted'[1].value =
                 BrightnessStep(FieldValue(req', LastPresent(req'), f_brightness),
                                req', feature_color_mode, f_brightness,
                                f_color_temp) ]_vars

C9_Witness ==
    /\ op = "turn_on"
    /\ req.rgbw # None /\ req.color_temp # None /\ req.rgbww # None
    /\ req.rgb = None /\ req.brightness = None /\ req.effect = None
    /\ emitted = <<[kind |-> "on", value |-> <<5, 15, 25, 35, 45>>]>>

\* C10: async_turn_on with an explicit brightness (and no effect): in
\* colour-temperature mode the on-value is the last reported colour
\* temperature packed with the new brightness, whatever the colour fields
\* (a colorTemperature of the same request included); in every other mode
\* it is the value left by the colour branches (the default on-value when
\* none is present) scaled channel-wise by the brightness.
C10_BrightnessStep ==
    [][ (/\ TurnOnStep
         /\ req'.brightness # None /\ req'.effect = None)
        => /\ Len(emitted') = 1
           /\ emitted'[1].kind = "on"
           /\ emitted'[1].value =
                 IF color_mode(feature_color_mode) = "color_temp"
                 THEN return_color_temp_with_brightness(
                          f_color_temp, Get(req'.brightness))
                 ELSE LET base ==
                          IF PresentColorFields(req') = {}
                          THEN sensible_on_value(feature_color_mode)
                          ELSE FieldValue(req', LastPresent(req'), f_brightness)
                      IN  [i \in DOMAIN base |->
                              ScaleChannel(base[i], Get(req'.brightness))] ]_vars

C10_Witness ==
    /\ op = "turn_on"
    /\ feature_color_mode = "CT"
    /\ req.color_temp = Some(100)
    /\ req.brightness = Some(128) /\ req.effect = None
    /\ req.rgbw = None /\ req.rgbww = None /\ req.rgb = None
    /\ emitted = <<[kind |-> "on", value |-> <<128, 50>>]>>

====
